---- MODULE Spec2Model ----
(***************************************************************************)
(* A state-machine model of compress_files (src/commands/compress.rs):     *)
(* the chain of encoders built around the destination file, the branch     *)
(* taken on the first format, and the release of the locals when the       *)
(* function is left (by return, by `?`, or by a panic that unwinds).       *)
(***************************************************************************)
EXTENDS Integers, Sequences, FiniteSets, TLC

\* ------------------------------------------------------------------ bounds

\* Longest list of formats after the first one.
MaxRemaining == 2
\* Most input paths staged by the SevenZip branch.
MaxFiles == 2

\* ------------------------------------------------------- format tokens

StreamingFormats == {"Gzip", "Bzip", "Lz4", "Lzma", "Snappy", "Zstd"}

ArchiveFormats == {"Tar", "Zip", "Rar", "SevenZip"}

CompressionFormat == StreamingFormats \cup ArchiveFormats

\* Encoders built on gzp::par::compress::ParCompress.
ParCompressFormats == {"Gzip", "Snappy"}

\* ---------------------------------------------------------------- levels

\* level: Option<i16>
I16Min == -32768
I16Max == 32767
I16 == I16Min .. I16Max

None == [some |-> FALSE, v |-> 0]
Some(l) == [some |-> TRUE, v |-> l]

\* A u32 is kept as its two 16-bit halves.
Half == 65536
U32(n) == [hi |-> n \div Half, lo |-> n % Half]
U32Less(a, b) == a.hi < b.hi \/ (a.hi = b.hi /\ a.lo < b.lo)
U32Value(x) == x.hi * Half + x.lo

\* `l as u32` for l: i16: sign extension, so a negative l becomes
\* 0xFFFF_0000 + (l mod 2^16).
AsU32(l) == IF l < 0 THEN [hi |-> Half - 1, lo |-> l + Half] ELSE [hi |-> 0, lo |-> l]

\* Ord::clamp on u32, the result (within [lo, hi], both small) as a number.
ClampU32(x, lo, hi) ==
    IF U32Less(x, U32(lo)) THEN lo
    ELSE IF U32Less(U32(hi), x) THEN hi
    ELSE U32Value(x)

\* `l as i32` for l: i16 (value preserving).
AsI32(l) == l

\* Ord::clamp on i32
Clamp(x, lo, hi) == IF x < lo THEN lo ELSE IF x > hi THEN hi ELSE x

\* zstd::zstd_safe::min_c_level() and max_c_level() of the linked libzstd.
ZstdMinCLevel == -131072
ZstdMaxCLevel == 22

\* The level an encoder is constructed with: the codec's own default
\* (Default::default(), zstd::DEFAULT_COMPRESSION_LEVEL) or a number.
LibraryDefault == [dflt |-> TRUE, v |-> 0]
Level(n) == [dflt |-> FALSE, v |-> n]

\* Bzip with the lower clamp bound of the other codecs.
EffectiveLevelBzipFromZero(format, level) ==
    CASE format = "Gzip" ->
           IF level.some THEN Level(ClampU32(AsU32(level.v), 0, 9)) ELSE LibraryDefault
      [] format = "Bzip" ->
           IF level.some THEN Level(ClampU32(AsU32(level.v), 0, 9)) ELSE LibraryDefault
      [] format = "Lzma" ->
           IF level.some THEN Level(ClampU32(AsU32(level.v), 0, 9)) ELSE Level(6)
      [] format = "Snappy" ->
           IF level.some THEN Level(ClampU32(AsU32(level.v), 0, 9)) ELSE Level(0)
      [] format = "Zstd" ->
           IF level.some
             THEN Level(Clamp(AsI32(level.v), ZstdMinCLevel, ZstdMaxCLevel))
             ELSE LibraryDefault
      [] OTHER -> LibraryDefault

\* The level argument each arm of chain_writer_encoder computes.
EffectiveLevel(format, level) ==
    CASE format = "Gzip" ->
           IF level.some THEN Level(ClampU32(AsU32(level.v), 0, 9)) ELSE LibraryDefault
      [] format = "Bzip" ->
           IF level.some THEN Level(ClampU32(AsU32(level.v), 1, 9)) ELSE LibraryDefault
      [] format = "Lzma" ->
           IF level.some THEN Level(ClampU32(AsU32(level.v), 0, 9)) ELSE Level(6)
      [] format = "Snappy" ->
           \* Default::default() is u32's here
           IF level.some THEN Level(ClampU32(AsU32(level.v), 0, 9)) ELSE Level(0)
      [] format = "Zstd" ->
           IF level.some
             THEN Level(Clamp(AsI32(level.v), ZstdMinCLevel, ZstdMaxCLevel))
             ELSE LibraryDefault
      [] OTHER -> LibraryDefault   \* Lz4: the frame encoder takes no level

\* zstd::stream::write::Encoder::new fails exactly on an invalid level.
ZstdNewFails(eff) ==
    /\ ~eff.dflt
    /\ (eff.v < ZstdMinCLevel \/ eff.v > ZstdMaxCLevel)

\* ------------------------------------------------------- the writer chain

\* A writer is the sequence of its encoder layers, the last wrapped (the one
\* written to) first; <<>> is the BufWriter over the destination file.
Layer(format, level) == [format |-> format, lvl |-> EffectiveLevel(format, level)]

\* Ok(encoder) of chain_writer_encoder: `encoder` wrapped in format's encoder.
ChainWriterEncoder(format, encoder, level) == <<Layer(format, level)>> \o encoder

\* How a call of chain_writer_encoder ends: "ok", or the panic it raises.
ChainOutcome(format, level) ==
    IF format \in ArchiveFormats THEN "unreachable"
    ELSE IF format = "Zstd" /\ ZstdNewFails(EffectiveLevel(format, level)) THEN "zstd_unwrap"
    ELSE "ok"

\* Bytes are chunks: the payload they carry and the encoders they went
\* through, in the order these were applied.
Chunk(kind, payload) == [kind |-> kind, payload |-> payload, layers |-> <<>>]

Encode(format, chunk) == [chunk EXCEPT !.layers = Append(@, format)]

\* What reaches the BufWriter when `chunk` is written to `w`.
RECURSIVE WriteThrough(_, _)
WriteThrough(w, chunk) ==
    IF w = <<>> THEN chunk
    ELSE WriteThrough(Tail(w), Encode(Head(w).format, chunk))

\* ------------------------------------------------------------------ state

VARIABLES
    extensions,  \* the flattened format list, first format first
    level,       \* Option<i16>
    pc,          \* position in compress_files
    idx,         \* formats still to wrap by the loop over formats.iter().rev()
    writer,      \* the encoder chain
    dropped,     \* layers of writer already released (finalized), from the head
    buf,         \* chunks held by the BufWriter
    dest,        \* chunks written to the destination file
    result,      \* "none", "true", "false", "err", "panic"
    fault,       \* the first operation that failed, or "none"
    log,         \* what the Zip and Rar branches did, in order
    tmpdir,      \* the SevenZip staging directory: "none", "exists", "removed"
    staged,      \* input paths staged so far
    branchDone   \* the selected match arm ran to its end

vars == <<extensions, level, pc, idx, writer, dropped, buf, dest, result, fault,
          log, tmpdir, staged, branchDone>>

\* split_first_compression_format
first_format == Head(extensions)
formats == Tail(extensions)

\* Sequences over S of length at most n.
SeqUpTo(S, n) == UNION {[1 .. k -> S] : k \in 0 .. n}

\* The lists the extension parser hands over: an archive format only first.
ValidExtensions ==
    {<<f>> \o r : f \in CompressionFormat, r \in SeqUpTo(StreamingFormats, MaxRemaining)}

\* Levels tried together with whole runs.
SampleLevels == {None, Some(-1), Some(25)}

InitWith(exts, lvl) ==
    /\ extensions = exts
    /\ level = lvl
    /\ pc = "build"
    /\ idx = Len(exts) - 1
    /\ writer = <<>>
    /\ dropped = 0
    /\ buf = <<>>
    /\ dest = <<>>
    /\ result = "none"
    /\ fault = "none"
    /\ log = <<>>
    /\ tmpdir = "none"
    /\ staged = 0
    /\ branchDone = FALSE

Init == \E exts \in ValidExtensions, lvl \in SampleLevels : InitWith(exts, lvl)


\* ------------------------------------------------------ the BufWriter

\* A write into the BufWriter stays in its buffer, or makes it write the
\* buffer and the new bytes to the file, which works or fails.
BufOutcomes == {"buffer", "spill", "fail"}

BufAfter(o, chunk) ==
    CASE o = "buffer" -> Append(buf, chunk)
      [] o = "spill" -> <<>>
      [] OTHER -> buf

DestAfter(o, chunk) ==
    CASE o = "spill" -> dest \o buf \o <<chunk>>
      [] OTHER -> dest

FirstFault(f) == IF fault = "none" THEN f ELSE fault

\* ------------------------------------------------- leaving the function

\* `return`, `?` and a panic all end the body; the locals are released next.
Leave(res, flt) ==
    /\ pc' = "drop"
    /\ result' = res
    /\ fault' = FirstFault(flt)

\* tempfile::TempDir removes its directory when it goes out of scope.
TmpdirReleased == IF tmpdir = "exists" THEN "removed" ELSE tmpdir

\* ---------------------------------------------------------- build phase

\* Forward iteration over the remaining formats.
LoopFormatForward(i) == formats[Len(formats) - i + 1]

\* formats.iter().rev(): with i formats left to wrap, the next is formats[i].
LoopFormat(i) == formats[i]

\* for format in formats.iter().rev() { writer = chain_writer_encoder(format, writer)?; }
WrapRemaining ==
    /\ pc = "build"
    /\ idx > 0
    /\ LET format == LoopFormat(idx)
           out == ChainOutcome(format, level)
       IN IF out = "ok"
            THEN /\ writer' = ChainWriterEncoder(format, writer, level)
                 /\ idx' = idx - 1
                 /\ UNCHANGED <<pc, result, fault>>
            ELSE /\ Leave("panic", out)
                 /\ UNCHANGED <<writer, idx>>
    /\ UNCHANGED <<extensions, level, dropped, buf, dest, log, tmpdir, staged, branchDone>>

\* The first arm taking the archive formats that stream as well.
IsStreamingArmWithTar(f) == f \in StreamingFormats \cup {"Tar"}

\* match first_format { Gzip | Bzip | Lz4 | Lzma | Snappy | Zstd => ...
IsStreamingArm(f) == f \in StreamingFormats

\* ------------------------------------------------------ streaming branch

\* writer = chain_writer_encoder(&first_format, writer)?;
StreamingWrap ==
    /\ pc = "build"
    /\ idx = 0
    /\ IsStreamingArm(first_format)
    /\ LET out == ChainOutcome(first_format, level)
       IN IF out = "ok"
            THEN /\ writer' = ChainWriterEncoder(first_format, writer, level)
                 /\ pc' = "open"
                 /\ UNCHANGED <<result, fault>>
            ELSE /\ Leave("panic", out)
                 /\ UNCHANGED writer
    /\ UNCHANGED <<extensions, level, idx, dropped, buf, dest, log, tmpdir, staged, branchDone>>

\* fs::File::open(&files[0]).unwrap(): a failed open panics.
OpenFailure == "panic"

\* let mut reader = fs::File::open(&files[0]).unwrap();
StreamingOpen ==
    /\ pc = "open"
    /\ \E ok \in BOOLEAN :
         IF ok
           THEN pc' = "copy" /\ UNCHANGED <<result, fault>>
           ELSE Leave(OpenFailure, "open")
    /\ UNCHANGED <<extensions, level, idx, writer, dropped, buf, dest, log, tmpdir, staged, branchDone>>

\* io::copy(&mut reader, &mut writer)?;  then Ok(true)
StreamingCopy ==
    /\ pc = "copy"
    /\ \E o \in BufOutcomes :
         LET chunk == WriteThrough(writer, Chunk("body", "file0"))
         IN /\ buf' = BufAfter(o, chunk)
            /\ dest' = DestAfter(o, chunk)
            /\ IF o = "fail"
                 THEN Leave("err", "io_copy") /\ UNCHANGED branchDone
                 ELSE Leave("true", "none") /\ branchDone' = TRUE
    /\ UNCHANGED <<extensions, level, idx, writer, dropped, log, tmpdir, staged>>

\* ------------------------------------------------------------ tar branch

\* archive::tar::build_archive_from_paths(&files, output_path, &mut writer, ..)?;
TarBuild ==
    /\ pc = "build"
    /\ idx = 0
    /\ first_format = "Tar"
    /\ \E o \in BufOutcomes :
         LET chunk == WriteThrough(writer, Chunk("body", "tar"))
         IN /\ buf' = BufAfter(o, chunk)
            /\ dest' = DestAfter(o, chunk)
            /\ IF o = "fail"
                 THEN Leave("err", "tar_build")
                 ELSE pc' = "tar_flush" /\ UNCHANGED <<result, fault>>
    /\ UNCHANGED <<extensions, level, idx, writer, dropped, log, tmpdir, staged, branchDone>>

\* writer.flush()?;  then Ok(true)
TarFlush ==
    /\ pc = "tar_flush"
    /\ \E ok \in BOOLEAN :
         IF ok
           THEN /\ dest' = dest \o buf
                /\ buf' = <<>>
                /\ branchDone' = TRUE
                /\ Leave("true", "none")
           ELSE /\ Leave("err", "flush")
                /\ UNCHANGED <<buf, dest, branchDone>>
    /\ UNCHANGED <<extensions, level, idx, writer, dropped, log, tmpdir, staged>>


\* ------------------------------------------------------------ zip branch

\* if !formats.is_empty()
NeedsConfirmation == formats # <<>>

\* warn_user_about_loading_zip_in_memory();  (only with outer formats)
ZipStart ==
    /\ pc = "build"
    /\ idx = 0
    /\ first_format = "Zip"
    /\ IF NeedsConfirmation
         THEN log' = Append(log, "warn") /\ pc' = "zip_ask"
         ELSE pc' = "zip_build" /\ UNCHANGED log
    /\ UNCHANGED <<extensions, level, idx, writer, dropped, buf, dest, result, fault,
                   tmpdir, staged, branchDone>>

\* A declined question that lets the build go on.
AfterAnswerIgnoringNo(a) ==
    CASE a = "yes" -> pc' = "zip_build" /\ UNCHANGED <<result, fault>>
      [] a = "no" -> pc' = "zip_build" /\ UNCHANGED <<result, fault>>
      [] OTHER -> Leave("err", "ask")

\* if !user_wants_to_continue(..)? { return Ok(false); }
AfterAnswer(a) ==
    CASE a = "yes" -> pc' = "zip_build" /\ UNCHANGED <<result, fault>>
      [] a = "no" -> Leave("false", "none")
      [] OTHER -> Leave("err", "ask")

\* user_wants_to_continue(output_path, question_policy, QuestionAction::Compression)
ZipAsk ==
    /\ pc = "zip_ask"
    /\ \E a \in {"yes", "no", "err"} :
         /\ log' = Append(log, "ask_" \o a)
         /\ AfterAnswer(a)
    /\ UNCHANGED <<extensions, level, idx, writer, dropped, buf, dest, tmpdir, staged,
                   branchDone>>

\* archive::zip::build_archive_from_paths(&files, output_path, &mut vec_buffer, ..)?;
ZipBuild ==
    /\ pc = "zip_build"
    /\ log' = Append(log, "build")
    /\ \E ok \in BOOLEAN :
         IF ok
           THEN pc' = "zip_rewind" /\ UNCHANGED <<result, fault>>
           ELSE Leave("err", "zip_build")
    /\ UNCHANGED <<extensions, level, idx, writer, dropped, buf, dest, tmpdir, staged,
                   branchDone>>

\* vec_buffer.rewind()?;  (a Cursor's seek to 0 cannot fail)
ZipRewind ==
    /\ pc = "zip_rewind"
    /\ log' = Append(log, "rewind")
    /\ pc' = "zip_copy"
    /\ UNCHANGED <<extensions, level, idx, writer, dropped, buf, dest, result, fault,
                   tmpdir, staged, branchDone>>

\* io::copy(&mut vec_buffer, &mut writer)?;  then Ok(true)
ZipCopy ==
    /\ pc = "zip_copy"
    /\ log' = Append(log, "copy")
    /\ \E o \in BufOutcomes :
         LET chunk == WriteThrough(writer, Chunk("body", "zip"))
         IN /\ buf' = BufAfter(o, chunk)
            /\ dest' = DestAfter(o, chunk)
            /\ IF o = "fail"
                 THEN Leave("err", "io_copy") /\ UNCHANGED branchDone
                 ELSE Leave("true", "none") /\ branchDone' = TRUE
    /\ UNCHANGED <<extensions, level, idx, writer, dropped, tmpdir, staged>>

\* ------------------------------------------------------------ rar branch

\* return Ok(false);
RarResult == "false"

\* archive::rar::no_compression_notice(); return Ok(false);
RarNotice ==
    /\ pc = "build"
    /\ idx = 0
    /\ first_format = "Rar"
    /\ log' = Append(log, "rar_notice")
    /\ Leave(RarResult, "none")
    /\ UNCHANGED <<extensions, level, idx, writer, dropped, buf, dest, tmpdir, staged,
                   branchDone>>

\* ------------------------------------------------------- sevenzip branch

\* let tmpdir = tempfile::tempdir()?;
SevenZipTempdir ==
    /\ pc = "build"
    /\ idx = 0
    /\ first_format = "SevenZip"
    /\ \E ok \in BOOLEAN :
         IF ok
           THEN tmpdir' = "exists" /\ pc' = "sz_stage" /\ UNCHANGED <<result, fault>>
           ELSE Leave("err", "tempdir") /\ UNCHANGED tmpdir
    /\ UNCHANGED <<extensions, level, idx, writer, dropped, buf, dest, log, staged,
                   branchDone>>

\* How staging one path can end: a directory (current_dir()?, strip_prefix
\* .expect, copy_recursively ?) or a file (file_name().expect, fs::copy ?).
StageOutcomes ==
    {"dir_ok", "cwd_err", "prefix_panic", "copy_recursively_err",
     "file_ok", "no_filename_panic", "copy_err"}

StageResult(o) ==
    CASE o \in {"dir_ok", "file_ok"} -> "none"
      [] o \in {"prefix_panic", "no_filename_panic"} -> "panic"
      [] OTHER -> "err"

\* A staging directory that a panic leaves behind.
TmpdirAtExitLeakOnPanic(res) == IF res = "panic" THEN tmpdir ELSE TmpdirReleased

\* tmpdir goes out of scope at the end of the arm, on `?` and on unwinding.
TmpdirAtExit(res) == TmpdirReleased

\* for filep in files.iter() { ... }  (one path per step)
SevenZipStage ==
    /\ pc = "sz_stage"
    /\ staged < MaxFiles
    /\ \E o \in StageOutcomes :
         IF StageResult(o) = "none"
           THEN staged' = staged + 1 /\ UNCHANGED <<pc, result, fault, tmpdir>>
           ELSE /\ Leave(StageResult(o), o)
                /\ tmpdir' = TmpdirAtExit(StageResult(o))
                /\ UNCHANGED staged
    /\ UNCHANGED <<extensions, level, idx, writer, dropped, buf, dest, log, branchDone>>

\* sevenz_rust::compress_to_path(tmpdir.path(), output_path).expect(..);  then Ok(true)
SevenZipArchive ==
    /\ pc = "sz_stage"
    /\ staged >= 1
    /\ \E ok \in BOOLEAN :
         IF ok
           THEN /\ dest' = <<Chunk("body", "7z")>>
                /\ branchDone' = TRUE
                /\ Leave("true", "none")
                /\ tmpdir' = TmpdirAtExit("true")
           ELSE /\ Leave("panic", "archiver")
                /\ tmpdir' = TmpdirAtExit("panic")
                /\ UNCHANGED <<dest, branchDone>>
    /\ UNCHANGED <<extensions, level, idx, writer, dropped, buf, log, staged>>

\* -------------------------------------------------- release of the locals

\* The bytes an encoder writes when it is finished: its trailer (and, if it
\* was never written to, its header), through the layers it wraps.
Trailer(i) ==
    WriteThrough(SubSeq(writer, i + 1, Len(writer)),
                 Encode(writer[i].format, Chunk("end", "-")))

\* writer is dropped when the function is left: each encoder finishes its
\* stream on drop (ParCompress, BzEncoder, XzEncoder, the auto_finish
\* wrappers), the outermost wrapper first.  A failure is ignored, except by
\* ParCompress, whose drop unwraps it.
DropEncoder ==
    /\ pc = "drop"
    /\ dropped < Len(writer)
    /\ \E o \in BufOutcomes :
         LET i == dropped + 1
             chunk == Trailer(i)
         IN /\ buf' = BufAfter(o, chunk)
            /\ dest' = DestAfter(o, chunk)
            /\ dropped' = i
            /\ IF o = "fail"
                 THEN /\ fault' = FirstFault("drop_finish")
                      /\ result' = IF writer[i].format \in ParCompressFormats
                                     THEN "panic" ELSE result
                 ELSE UNCHANGED <<result, fault>>
    /\ UNCHANGED <<extensions, level, pc, idx, writer, log, tmpdir, staged, branchDone>>

\* The BufWriter is dropped last: it writes its buffer out and ignores a failure.
DropFileWriter ==
    /\ pc = "drop"
    /\ dropped = Len(writer)
    /\ \E ok \in BOOLEAN :
         IF ok
           THEN dest' = dest \o buf /\ buf' = <<>> /\ UNCHANGED fault
           ELSE /\ buf # <<>>
                /\ fault' = FirstFault("drop_flush")
                /\ UNCHANGED <<buf, dest>>
    /\ pc' = "done"
    /\ UNCHANGED <<extensions, level, idx, writer, dropped, result, log, tmpdir, staged,
                   branchDone>>

\* ----------------------------------------------------------- specification

Next ==
    \/ WrapRemaining
    \/ StreamingWrap
    \/ StreamingOpen
    \/ StreamingCopy
    \/ TarBuild
    \/ TarFlush
    \/ ZipStart
    \/ ZipAsk
    \/ ZipBuild
    \/ ZipRewind
    \/ ZipCopy
    \/ RarNotice
    \/ SevenZipTempdir
    \/ SevenZipStage
    \/ SevenZipArchive
    \/ DropEncoder
    \/ DropFileWriter

Spec == Init /\ [][Next]_vars


\* Every level of the input type against one streaming codec: the call of
\* chain_writer_encoder that wraps the first format.
AllLevels == {None} \cup {Some(l) : l \in I16}

InitLevel == \E f \in StreamingFormats, lvl \in AllLevels : InitWith(<<f>>, lvl)

NextLevel == StreamingWrap

SpecLevel == InitLevel /\ [][NextLevel]_vars

\* ------------------------------------------------------------ properties

Done == pc = "done"

Logged(e) == \E i \in 1 .. Len(log) : log[i] = e

IsPrefix(a, b) == Len(a) <= Len(b) /\ a = SubSeq(b, 1, Len(a))

Declined == Logged("ask_no")

\* The two aborts: Rar, and Zip with outer formats and a declined question.
AbortCase ==
    \/ first_format = "Rar"
    \/ first_format = "Zip" /\ formats # <<>> /\ Declined

\* The failures that are I/O failures: every `?` of the body, the failed
\* open, the external archiver, and the writes made while the locals are
\* released.  A failed strip_prefix or file_name is a path computation.
IOFaults ==
    {"open", "io_copy", "tar_build", "flush", "ask", "zip_build", "tempdir",
     "cwd_err", "copy_recursively_err", "copy_err", "archiver",
     "drop_finish", "drop_flush"}

\* C1: a finished call reports true only after the selected arm ran to its
\* end, reports false only in the two abort cases, and, in a run without
\* I/O failure, reports false in the abort cases and true in every other.
C1_ReturnValue ==
    Done =>
      /\ result = "true" => branchDone
      /\ result = "false" => AbortCase
      /\ fault \notin IOFaults => result = (IF AbortCase THEN "false" ELSE "true")

\* What holds of the return value: the same, for the runs in which no
\* operation at all failed.
ReturnValueUnlessFault ==
    Done =>
      /\ result = "true" => branchDone
      /\ result = "false" => AbortCase
      /\ fault = "none" => result = (IF AbortCase THEN "false" ELSE "true")
      /\ AbortCase => ~branchDone

C1_Witness ==
    /\ Done
    /\ first_format = "Zip"
    /\ Len(formats) = 2
    /\ Declined
    /\ result = "false"

\* The layers the payload must carry, in the order applied, and the payload.
ExpectedLayers == IF first_format \in StreamingFormats THEN extensions ELSE formats

ExpectedPayload ==
    CASE first_format = "Tar" -> "tar"
      [] first_format = "Zip" -> "zip"
      [] OTHER -> "file0"

\* enc_fn(... enc_f1(P)): the body through every layer in list order, then
\* each layer's trailer through the layers listed after it.
ExpectedDest ==
    LET L == ExpectedLayers
        n == Len(L)
    IN <<[kind |-> "body", payload |-> ExpectedPayload, layers |-> L]>>
       \o [k \in 1 .. n |-> [kind |-> "end", payload |-> "-", layers |-> SubSeq(L, k, n)]]

\* C2: when a call through the sink (streaming codec, Tar or Zip first) is
\* committed and nothing failed, the destination file holds the payload
\* encoded by the formats in list order, the first format innermost and the
\* last listed format outermost.
C2_LayerOrder ==
    (Done /\ result = "true" /\ fault = "none"
       /\ first_format \in StreamingFormats \cup {"Tar", "Zip"})
      => dest = ExpectedDest

C2_Witness ==
    /\ Done
    /\ result = "true"
    /\ fault = "none"
    /\ first_format = "Tar"
    /\ Len(formats) = 2
    /\ formats[1] # formats[2]
    /\ dest = ExpectedDest

\* The level domain of a codec.
HasDomain(f) == f \in {"Gzip", "Bzip", "Lzma", "Snappy", "Zstd"}

DomainMin(f) ==
    CASE f = "Bzip" -> 1
      [] f = "Zstd" -> ZstdMinCLevel
      [] OTHER -> 0

DomainMax(f) == IF f = "Zstd" THEN ZstdMaxCLevel ELSE 9

Nearest(f, l) ==
    IF l < DomainMin(f) THEN DomainMin(f)
    ELSE IF l > DomainMax(f) THEN DomainMax(f)
    ELSE l

\* C3: every encoder of a codec with a level domain is built with the
\* requested level when it is inside the domain, with the domain's maximum
\* when it is above and with the domain's minimum when it is below.
C3_ClampToNearest ==
    \A i \in 1 .. Len(writer) :
      (level.some /\ HasDomain(writer[i].format))
        => writer[i].lvl = Level(Nearest(writer[i].format, level.v))

C4_ZipProtocol ==
    first_format = "Zip" =>
      /\ formats # <<>> =>
           \/ IsPrefix(log, <<"warn", "ask_yes", "build", "rewind", "copy">>)
           \/ log = <<"warn", "ask_no">>
           \/ log = <<"warn", "ask_err">>
      /\ formats = <<>> => IsPrefix(log, <<"build", "rewind", "copy">>)
      /\ (Done /\ (formats = <<>> \/ Logged("ask_yes"))) => Logged("build")
      /\ (Done /\ formats # <<>>) => (Logged("warn") /\ Len(log) >= 2)

C4_Witness ==
    /\ Done
    /\ first_format = "Zip"
    /\ log = <<"warn", "ask_no">>
    /\ result = "false"

\* C5: a call that ends not committed has written nothing to the
\* destination file.
C5_NoBytesWhenNotCommitted ==
    (Done /\ result = "false") => dest = <<>>

\* C6: a failed open of files[0] comes back to the caller as an error result.
C6_OpenFailurePropagates ==
    (Done /\ fault = "open") => result = "err"

\* C7: the wrapping step is only called with streaming codecs and never
\* reaches its unreachable arm.
C7_NoUnreachable ==
    /\ fault # "unreachable"
    /\ \A i \in 1 .. Len(writer) : writer[i].format \in StreamingFormats

C7_Witness ==
    /\ Done
    /\ first_format \in ArchiveFormats
    /\ Len(writer) = 2
    /\ fault = "none"

\* C8: once the call has left the SevenZip branch, however it left it, the
\* staging directory it created is gone.
C8_TmpdirRemoved ==
    pc \in {"drop", "done"} => tmpdir # "exists"

C8_Witness ==
    /\ Done
    /\ tmpdir = "removed"
    /\ fault = "prefix_panic"
    /\ staged = 1

\* C9: a call through the sink that reports committed has finished every
\* layer and written every buffered byte to the file, no flush or finish
\* having failed.
C9_CommittedMeansFlushed ==
    (Done /\ result = "true" /\ first_format \in StreamingFormats \cup {"Tar", "Zip"})
      => (dropped = Len(writer) /\ buf = <<>> /\ fault = "none" /\ dest = ExpectedDest)

====
